---- MODULE Spec2Model ----
(***************************************************************************)
(* Itinerary scheduling engine of travel_agent/tools/scheduler_tools.py.   *)
(*                                                                         *)
(* build_schedule is modelled statement by statement: one action per path  *)
(* through the body of its day loop and of its packing loop.               *)
(*                                                                         *)
(* Encodings                                                               *)
(*   "HH:MM" string   the pair <<h, m>>; <<>> is an absent key, None or "" *)
(*                    (all falsy in `if opening:`); a pair outside         *)
(*                    00:00..23:59 is a string strptime rejects.           *)
(*   datetime         minutes since 1900-01-01 00:00, the date strptime    *)
(*                    gives to a bare "%H:%M" (1440 and more: 1900-01-02). *)
(*   place["name"]    the position of the place in the input list (names   *)
(*                    are taken to be distinct).                           *)
(*   activity.place   the index of the prepared place the activity refers  *)
(*                    to (the Python dict is shared by reference).         *)
(*   lat, lng         millidegrees; NoKey when the key is absent.          *)
(*                                                                         *)
(* The state service (redis_state.py), the state tools (state_tools.py)    *)
(* and the session endpoints (api.py) are modelled one action per tool or  *)
(* request. A store maps a session id to <<>> (no key) or <<value>>; a     *)
(* dict read from the fallback store is the stored dict itself, a dict     *)
(* read from Redis is a copy.                                              *)
(***************************************************************************)
EXTENDS Integers, Sequences, FiniteSets, TLC

VARIABLES
    places, duration_days, pace, start_time, end_time,  \* the arguments
    prepared_places, days, warnings, place_index,       \* locals of build_schedule
    day_num, day_activities, current_time, day_end, activities_today,
    pc,             \* position in build_schedule
    result,         \* <<>> until the call returns, then <<the returned dict>>
    raised,         \* "" or the exception that ended the call
    run, first_run, \* number of the call on these arguments; outcome of call 1
    skipped,        \* history: the places dropped at lines 124-131 in this call
    restaurants,    \* the second argument of add_meals_to_schedule
    validation,     \* <<>>, then <<the dict validate_schedule returned>>
    route,          \* <<>>, then <<the list optimize_route_order returned>>
    travel,         \* <<>>, then <<the minutes _estimate_travel_time returned>>
    redis_client,   \* RedisStateService.redis_client is set (a Redis is connected)
    redis_db,       \* the keys travel_agent:state:* and travel_agent:owner:* in Redis
    fallback_store, \* RedisStateService.fallback_store
    trip_states,    \* _trip_states of state_tools.py
    sessions,       \* the sessions of the InMemorySessionService, as (user, session id)
    response,       \* what the last request or tool call returned
    ideal           \* history: per session the state its tool calls add up to, and
                    \* the first owner recorded for it

vars == <<places, duration_days, pace, start_time, end_time,
          prepared_places, days, warnings, place_index,
          day_num, day_activities, current_time, day_end, activities_today,
          pc, result, raised, run, first_run, skipped,
          restaurants, validation, route, travel,
          redis_client, redis_db, fallback_store, trip_states, sessions,
          response, ideal>>

args == <<places, duration_days, pace, start_time, end_time>>

\* what the other entry points of the module write
post == <<restaurants, validation, route, travel,
          redis_client, redis_db, fallback_store, trip_states, sessions,
          response, ideal>>

\* the state service, the session service and what they returned
svc == <<redis_client, redis_db, fallback_store, trip_states, sessions,
         response, ideal>>

----------------------------------------------------------------------------
(* Bounds of the model *)

MaxPlaces == 5       \* longest list drawn from the whole catalogue
MaxCapPlaces == 7    \* longest list of quick stops (one more than the packed cap)
MaxDays == 2         \* duration_days ranges over 0..MaxDays

----------------------------------------------------------------------------
(* Times *)

NoKey == 0 - 1

\* "%H:%M" accepts hours 0..23 and minutes 0..59
WellFormed(s) == Len(s) = 2 /\ s[1] \in 0..23 /\ s[2] \in 0..59

\* datetime.strptime(s, "%H:%M") for a well-formed s
Strptime(s) == s[1] * 60 + s[2]

\* t.strftime("%H:%M"): the date part is dropped
Strftime(t) == <<(t \div 60) % 24, t % 60>>

----------------------------------------------------------------------------
(* Places *)

\* default_durations.get(type.lower(), 90)
DefaultDuration(type) ==
    CASE type = "museum" -> 120
      [] type = "attraction" -> 90
      [] type = "restaurant" -> 75
      [] type = "cafe" -> 45
      [] type = "park" -> 60
      [] type = "shopping" -> 90
      [] type = "temple" -> 60
      [] type = "beach" -> 180
      [] type = "hotel" -> 0
      [] OTHER -> 90

\* place = p.copy(); a missing duration_minutes is filled from the type
PreparePlace(p) ==
    IF p.duration_minutes = NoKey
    THEN [p EXCEPT !.duration_minutes = DefaultDuration(p.type)]
    ELSE p

\* mutant: an unknown pace packs 6 activities a day
MaxActivitiesDefaultSix(p) ==
    CASE p = "relaxed" -> 4
      [] p = "moderate" -> 5
      [] p = "packed" -> 6
      [] OTHER -> 6

\* mutant: every cap one too large
MaxActivitiesOneMore(p) ==
    CASE p = "relaxed" -> 5
      [] p = "moderate" -> 6
      [] p = "packed" -> 7
      [] OTHER -> 5

\* {"relaxed": 4, "moderate": 5, "packed": 6}.get(pace, 5)
MaxActivities(p) ==
    CASE p = "relaxed" -> 4
      [] p = "moderate" -> 5
      [] p = "packed" -> 6
      [] OTHER -> 5

HasCoords(p) == p.lat # NoKey /\ p.lng # NoKey

Abs(x) == IF x < 0 THEN 0 - x ELSE x

\* _haversine_distance, in metres, for two points of one meridian: there
\* a = sin^2(dlat/2), c = dlat in radians and the distance is
\* 6371 * pi / 180 km per degree = 111.195 m per millidegree.
HaversineMetres(lat1, lon1, lat2, lon2) ==
    (Abs(lat2 - lat1) * 111195) \div 1000

\* line 188: int(dist / 0.5), the distance in half kilometres, truncated
HaversineHalfKm(lat1, lon1, lat2, lon2) ==
    HaversineMetres(lat1, lon1, lat2, lon2) \div 500

Min(a, b) == IF a < b THEN a ELSE b
Max(a, b) == IF a > b THEN a ELSE b

\* mutant: round(dist / 0.5) in place of int(dist / 0.5)
EstimateTravelTimeRounds(from, to) ==
    IF HasCoords(from) /\ HasCoords(to)
    THEN Max(10, Min(60,
             (HaversineMetres(from.lat, from.lng, to.lat, to.lng) + 250) \div 500))
    ELSE IF from.type = to.type THEN 15 ELSE 25

\* _estimate_travel_time
EstimateTravelTime(from, to) ==
    IF HasCoords(from) /\ HasCoords(to)
    THEN Max(10, Min(60, HaversineHalfKm(from.lat, from.lng, to.lat, to.lng)))
    ELSE IF from.type = to.type THEN 15 ELSE 25

----------------------------------------------------------------------------
(* Inputs *)

Hotel  == [type |-> "hotel", duration_minutes |-> NoKey,
           opening_time |-> <<>>, closing_time |-> <<>>,
           lat |-> NoKey, lng |-> NoKey]
Park   == [type |-> "park", duration_minutes |-> 60,
           opening_time |-> <<>>, closing_time |-> <<>>,
           lat |-> 0, lng |-> 0]
Museum == [type |-> "museum", duration_minutes |-> 60,
           opening_time |-> <<10, 0>>, closing_time |-> <<11, 30>>,
           lat |-> 100, lng |-> 0]

PlaceKinds == {Hotel, Park, Museum}

SeqsUpTo(S, n) == UNION {[1..k -> S] : k \in 0..n}

PlaceLists == SeqsUpTo(PlaceKinds, MaxPlaces) \cup SeqsUpTo({Hotel}, MaxCapPlaces)

Paces == {"relaxed", "moderate", "packed"}
PaceValues == Paces \cup {"leisurely"}

StartTimes == {<<9, 0>>, <<23, 0>>, <<25, 0>>}
EndTimes == {<<12, 0>>, <<23, 50>>, <<21, 60>>}

----------------------------------------------------------------------------
(* Sessions and their trip state *)

Users == {"A", "B"}
Sids == {"s1"}

\* RedisStateService._empty_state; of the three lists of places only hotels
\* is kept, preferences is its destination, the itinerary is its list of days
EmptyState == [destination |-> "",
               hotels |-> <<>>,
               itinerary |-> <<>>,
               phase |-> "clarifying",
               warnings |-> <<>>]

\* a key-value store without keys: <<>> is a missing key, <<v>> the value v
EmptyStore == [state |-> [sid \in Sids |-> <<>>],
               owner |-> [sid \in Sids |-> <<>>]]

\* the services as the module import leaves them, before any request
NoRequestYet ==
    /\ redis_db = EmptyStore
    /\ fallback_store = EmptyStore
    /\ trip_states = [sid \in Sids |-> <<>>]
    /\ sessions = {}
    /\ response = [kind |-> "none"]
    /\ ideal = [state |-> [sid \in Sids |-> EmptyState],
                owner |-> [sid \in Sids |-> <<>>]]

----------------------------------------------------------------------------
(* build_schedule *)

NotStarted == [outcome |-> "none", value |-> <<>>, warnings |-> <<>>]

Init ==
    /\ places \in PlaceLists
    /\ duration_days \in 0..MaxDays
    /\ pace \in PaceValues
    /\ start_time \in StartTimes
    /\ end_time \in EndTimes
    /\ prepared_places = <<>>
    /\ days = <<>>
    /\ warnings = <<>>
    /\ place_index = 0
    /\ day_num = 0
    /\ day_activities = <<>>
    /\ current_time = 0
    /\ day_end = 0
    /\ activities_today = 0
    /\ pc = "prepare"
    /\ result = <<>>
    /\ raised = ""
    /\ run = 1
    /\ first_run = NotStarted
    /\ skipped = {}
    /\ restaurants = <<>>
    /\ validation = <<>>
    /\ route = <<>>
    /\ travel = <<>>
    /\ redis_client = FALSE
    /\ NoRequestYet

\* mutant: the warnings list outlives the call (it is not created anew)
PrepareKeepsWarnings ==
    /\ pc = "prepare"
    /\ prepared_places' = [i \in 1..Len(places) |-> PreparePlace(places[i])]
    /\ days' = <<>>
    /\ place_index' = 0
    /\ day_num' = 0
    /\ skipped' = {}
    /\ pc' = "for"
    /\ UNCHANGED <<args, post, warnings, day_activities, current_time, day_end,
                   activities_today, result, raised, run, first_run>>

\* lines 60-95: max_activities, prepared_places, days, warnings, place_index
Prepare ==
    /\ pc = "prepare"
    /\ prepared_places' = [i \in 1..Len(places) |-> PreparePlace(places[i])]
    /\ days' = <<>>
    /\ warnings' = <<>>
    /\ place_index' = 0
    /\ day_num' = 0
    /\ skipped' = {}
    /\ pc' = "for"
    /\ UNCHANGED <<args, post, day_activities, current_time, day_end,
                   activities_today, result, raised, run, first_run>>

\* mutant: the cursor into the place list starts again on every day
ForDayResetsCursor ==
    /\ pc = "for"
    /\ day_num < duration_days
    /\ WellFormed(start_time) /\ WellFormed(end_time)
    /\ day_num' = day_num + 1
    /\ day_activities' = <<>>
    /\ current_time' = Strptime(start_time)
    /\ day_end' = Strptime(end_time)
    /\ activities_today' = 0
    /\ place_index' = 0
    /\ pc' = "while"
    /\ UNCHANGED <<args, post, prepared_places, days, warnings,
                   result, raised, run, first_run, skipped>>

\* lines 97-101: the next day of range(1, duration_days + 1) begins
ForDay ==
    /\ pc = "for"
    /\ day_num < duration_days
    /\ WellFormed(start_time) /\ WellFormed(end_time)
    /\ day_num' = day_num + 1
    /\ day_activities' = <<>>
    /\ current_time' = Strptime(start_time)
    /\ day_end' = Strptime(end_time)
    /\ activities_today' = 0
    /\ pc' = "while"
    /\ UNCHANGED <<args, post, prepared_places, days, warnings, place_index,
                   result, raised, run, first_run, skipped>>

\* lines 99-100: strptime raises ValueError on a string it cannot parse
ForDayRaise ==
    /\ pc = "for"
    /\ day_num < duration_days
    /\ ~(WellFormed(start_time) /\ WellFormed(end_time))
    /\ raised' = "ValueError"
    /\ pc' = "done"
    /\ UNCHANGED <<args, post, prepared_places, days, warnings, place_index,
                   day_num, day_activities, current_time, day_end,
                   activities_today, result, run, first_run, skipped>>

\* line 103-105: the condition of the packing loop
WhileCond ==
    /\ activities_today < MaxActivities(pace)
    /\ place_index < Len(prepared_places)
    /\ current_time < day_end

\* line 107: place = prepared_places[place_index]
place == prepared_places[place_index + 1]

\* lines 117-122: current_time after waiting for the place to open
AfterOpening ==
    IF place.opening_time # <<>> /\ current_time < Strptime(place.opening_time)
    THEN Strptime(place.opening_time)
    ELSE current_time

\* lines 111, 122: activity_end before any travel time is added
ActivityEnd == AfterOpening + place.duration_minutes

\* lines 124-126
ClosesTooEarly ==
    /\ place.closing_time # <<>>
    /\ ActivityEnd > Strptime(place.closing_time)

\* lines 159-163
DayRecord == [day_number |-> day_num,
              activities |-> day_activities,
              total_activities |-> Len(day_activities)]

\* lines 124-131: the place closes before the visit would end
SkipClosed ==
    /\ pc = "while"
    /\ WhileCond
    /\ ClosesTooEarly
    /\ warnings' = Append(warnings, [kind |-> "Moved",
                                     names |-> <<place_index + 1>>,
                                     closing |-> place.closing_time])
    /\ place_index' = place_index + 1
    /\ current_time' = AfterOpening
    /\ skipped' = skipped \cup {place_index + 1}
    /\ UNCHANGED <<args, post, prepared_places, days, day_num, day_activities,
                   day_end, activities_today, pc, result, raised, run, first_run>>

\* mutant: `continue` in place of `break`; the loop tries the same place again
BreakDayContinues ==
    /\ pc = "while"
    /\ WhileCond
    /\ ~ClosesTooEarly
    /\ ActivityEnd > day_end
    /\ current_time' = AfterOpening
    /\ UNCHANGED <<args, post, prepared_places, days, warnings, place_index, day_num,
                   day_activities, day_end, activities_today, pc,
                   result, raised, run, first_run, skipped>>

\* mutant: the place that does not fit is consumed when the day is closed
BreakDayConsumes ==
    /\ pc = "while"
    /\ WhileCond
    /\ ~ClosesTooEarly
    /\ ActivityEnd > day_end
    /\ current_time' = AfterOpening
    /\ days' = Append(days, DayRecord)
    /\ place_index' = place_index + 1
    /\ pc' = "for"
    /\ UNCHANGED <<args, post, prepared_places, warnings, day_num,
                   day_activities, day_end, activities_today,
                   result, raised, run, first_run, skipped>>

\* lines 133-136, 159-163: the visit would end after day_end; the day is closed
BreakDay ==
    /\ pc = "while"
    /\ WhileCond
    /\ ~ClosesTooEarly
    /\ ActivityEnd > day_end
    /\ current_time' = AfterOpening
    /\ days' = Append(days, DayRecord)
    /\ pc' = "for"
    /\ UNCHANGED <<args, post, prepared_places, warnings, place_index, day_num,
                   day_activities, day_end, activities_today,
                   result, raised, run, first_run, skipped>>

\* lines 139-144
TravelTime ==
    IF day_activities # <<>>
    THEN EstimateTravelTime(
             prepared_places[day_activities[Len(day_activities)].place], place)
    ELSE 0

\* lines 138-157: the place is scheduled
AddActivity ==
    /\ pc = "while"
    /\ WhileCond
    /\ ~ClosesTooEarly
    /\ ActivityEnd <= day_end
    /\ LET start == AfterOpening + TravelTime
           end == start + place.duration_minutes
       IN /\ day_activities' = Append(day_activities,
                 [time |-> Strftime(start),
                  end_time |-> Strftime(end),
                  duration_minutes |-> place.duration_minutes,
                  travel_from_previous |-> TravelTime,
                  place |-> place_index + 1])
          /\ current_time' = end + 15
    /\ activities_today' = activities_today + 1
    /\ place_index' = place_index + 1
    /\ UNCHANGED <<args, post, prepared_places, days, warnings, day_num, day_end,
                   pc, result, raised, run, first_run, skipped>>

\* mutant: a day without activities is not appended to days
ExitWhileDropsEmptyDay ==
    /\ pc = "while"
    /\ ~WhileCond
    /\ days' = IF day_activities = <<>> THEN days ELSE Append(days, DayRecord)
    /\ pc' = "for"
    /\ UNCHANGED <<args, post, prepared_places, warnings, place_index, day_num,
                   day_activities, current_time, day_end, activities_today,
                   result, raised, run, first_run, skipped>>

\* lines 103-105, 159-163: the loop condition fails; the day is closed
ExitWhile ==
    /\ pc = "while"
    /\ ~WhileCond
    /\ days' = Append(days, DayRecord)
    /\ pc' = "for"
    /\ UNCHANGED <<args, post, prepared_places, warnings, place_index, day_num,
                   day_activities, current_time, day_end, activities_today,
                   result, raised, run, first_run, skipped>>

\* mutant: the slice starts at the head of the list, not at the cursor
UnscheduledFromHead ==
    [i \in 1..Min(3, Len(prepared_places)) |-> i]

\* prepared_places[place_index:][:3], as names
Unscheduled ==
    [i \in 1..Min(3, Len(prepared_places) - place_index) |-> place_index + i]

\* mutant: the aggregate warning is added whether or not places are left
FinalWarningsAlways ==
    Append(warnings, [kind |-> "Could not fit",
                      names |-> Unscheduled,
                      closing |-> <<>>])

\* lines 165-168
FinalWarnings ==
    IF place_index < Len(prepared_places)
    THEN Append(warnings, [kind |-> "Could not fit",
                           names |-> Unscheduled,
                           closing |-> <<>>])
    ELSE warnings

\* lines 165-176: the day loop is over; the schedule is returned
Return ==
    /\ pc = "for"
    /\ day_num >= duration_days
    /\ warnings' = FinalWarnings
    /\ result' = <<[success |-> TRUE,
                    days |-> days,
                    scheduled_count |-> place_index,
                    total_places |-> Len(prepared_places),
                    warnings |-> FinalWarnings]>>
    /\ pc' = "done"
    /\ UNCHANGED <<args, post, prepared_places, days, place_index, day_num,
                   day_activities, current_time, day_end, activities_today,
                   raised, run, first_run, skipped>>

\* build_schedule is called a second time with the same arguments
CallAgain ==
    /\ pc = "done"
    /\ run = 1
    /\ first_run' = [outcome |-> IF raised = "" THEN "returned" ELSE raised,
                     value |-> result,
                     warnings |-> warnings]
    /\ run' = 2
    /\ pc' = "prepare"
    /\ result' = <<>>
    /\ raised' = ""
    /\ UNCHANGED <<args, post, prepared_places, days, warnings, place_index, day_num,
                   day_activities, current_time, day_end, activities_today, skipped>>

\* one call of build_schedule
Call ==
    \/ Prepare
    \/ ForDay
    \/ ForDayRaise
    \/ SkipClosed
    \/ BreakDay
    \/ AddActivity
    \/ ExitWhile
    \/ Return

Next ==
    \/ Call
    \/ CallAgain

Spec == Init /\ [][Next]_vars

----------------------------------------------------------------------------
(* build_schedule on places with narrow opening hours and on the scenario   *)
(* of three places without hours                                           *)

MaxHoursPlaces == 3  \* longest list drawn from HoursKinds

\* the locals and results before any call
NoCall ==
    /\ prepared_places = <<>>
    /\ days = <<>>
    /\ warnings = <<>>
    /\ place_index = 0
    /\ day_num = 0
    /\ day_activities = <<>>
    /\ current_time = 0
    /\ day_end = 0
    /\ activities_today = 0
    /\ result = <<>>
    /\ raised = ""
    /\ run = 1
    /\ first_run = NotStarted
    /\ skipped = {}
    /\ restaurants = <<>>
    /\ validation = <<>>
    /\ route = <<>>
    /\ travel = <<>>

\* no call is under way and no request was served
Idle ==
    /\ NoCall
    /\ redis_client = FALSE
    /\ NoRequestYet

\* open for half an hour, a visit takes an hour: closed before any visit ends
Kiosk == [type |-> "cafe", duration_minutes |-> 60,
          opening_time |-> <<11, 0>>, closing_time |-> <<11, 30>>,
          lat |-> NoKey, lng |-> NoKey]

HoursKinds == {Hotel, Park, Museum, Kiosk}

Gallery  == [type |-> "museum", duration_minutes |-> 120,
             opening_time |-> <<>>, closing_time |-> <<>>,
             lat |-> NoKey, lng |-> NoKey]
Landmark == [type |-> "attraction", duration_minutes |-> 90,
             opening_time |-> <<>>, closing_time |-> <<>>,
             lat |-> NoKey, lng |-> NoKey]
Garden   == [type |-> "park", duration_minutes |-> 60,
             opening_time |-> <<>>, closing_time |-> <<>>,
             lat |-> NoKey, lng |-> NoKey]

ScenarioPlaces == <<Gallery, Landmark, Garden>>

InitHours ==
    /\ places \in SeqsUpTo(HoursKinds, MaxHoursPlaces) \cup {ScenarioPlaces}
    /\ duration_days \in 1..MaxDays
    /\ pace = "moderate"
    /\ start_time = <<9, 0>>
    /\ end_time \in {<<12, 0>>, <<21, 0>>, <<21, 60>>}
    /\ pc = "prepare"
    /\ Idle

HoursSpec == InitHours /\ [][Next]_vars

----------------------------------------------------------------------------
(* _estimate_travel_time on pairs of places *)

TravelLats == {NoKey, 0, 40, 48, 100, 300, 400}

TravelPlaces ==
    {[type |-> t, duration_minutes |-> NoKey,
      opening_time |-> <<>>, closing_time |-> <<>>,
      lat |-> la, lng |-> ln] :
        t \in {"park", "museum"}, la \in TravelLats, ln \in {NoKey, 0}}

\* from_place and to_place are places[1] and places[2]
InitTravel ==
    /\ places \in [1..2 -> TravelPlaces]
    /\ duration_days = 0
    /\ pace = "moderate"
    /\ start_time = <<9, 0>>
    /\ end_time = <<21, 0>>
    /\ pc = "estimate"
    /\ Idle

\* _estimate_travel_time(from_place, to_place)
EstimateTravel ==
    /\ pc = "estimate"
    /\ travel' = <<EstimateTravelTime(places[1], places[2])>>
    /\ pc' = "estimated"
    /\ UNCHANGED <<args, prepared_places, days, warnings, place_index, day_num,
                   day_activities, current_time, day_end, activities_today,
                   result, raised, run, first_run, skipped,
                   restaurants, validation, route, svc>>

TravelSpec == InitTravel /\ [][EstimateTravel]_vars

----------------------------------------------------------------------------
(* optimize_route_order *)

MaxRoutePlaces == 4  \* longest list given to optimize_route_order

NoCoords(p) == ~HasCoords(p)

Dist(a, b) == HaversineMetres(a.lat, a.lng, b.lat, b.lng)

\* mutant: of several nearest places the last one in the list is taken
NearestIndexLast(current, remaining) ==
    CHOOSE k \in 1..Len(remaining) :
        /\ \A j \in 1..Len(remaining) :
               Dist(current, remaining[k]) <= Dist(current, remaining[j])
        /\ \A j \in (k + 1)..Len(remaining) :
               Dist(current, remaining[k]) < Dist(current, remaining[j])

\* lines 238-240: min(remaining, key = distance from current) gives the first
\* of the elements with the least key
NearestIndex(current, remaining) ==
    CHOOSE k \in 1..Len(remaining) :
        /\ \A j \in 1..Len(remaining) :
               Dist(current, remaining[k]) <= Dist(current, remaining[j])
        /\ \A j \in 1..(k - 1) :
               Dist(current, remaining[k]) < Dist(current, remaining[j])

\* mutant: every element equal to x is dropped
RemoveEvery(seq, x) == SelectSeq(seq, LAMBDA y : y # x)

\* list.remove(x): the first element equal to x is dropped
RemoveFirst(seq, x) ==
    LET k == CHOOSE i \in 1..Len(seq) :
                 seq[i] = x /\ \A j \in 1..(i - 1) : seq[j] # x
    IN [i \in 1..(Len(seq) - 1) |-> IF i < k THEN seq[i] ELSE seq[i + 1]]

\* lines 236-242
RECURSIVE NearestNeighbour(_, _)
NearestNeighbour(ordered, remaining) ==
    IF remaining = <<>> THEN ordered
    ELSE LET current == ordered[Len(ordered)]
             nearest == remaining[NearestIndex(current, remaining)]
         IN NearestNeighbour(Append(ordered, nearest),
                             RemoveFirst(remaining, nearest))

\* mutant: the list is returned as it is only when no place has coordinates
OptimizeRouteOrderOneLocated(ps) ==
    IF Len(ps) <= 2 THEN ps
    ELSE LET with_coords == SelectSeq(ps, HasCoords)
             without_coords == SelectSeq(ps, NoCoords)
         IN IF Len(with_coords) = 0 THEN ps
            ELSE NearestNeighbour(<<with_coords[1]>>, Tail(with_coords))
                     \o without_coords

\* optimize_route_order
OptimizeRouteOrder(ps) ==
    IF Len(ps) <= 2 THEN ps
    ELSE LET with_coords == SelectSeq(ps, HasCoords)
             without_coords == SelectSeq(ps, NoCoords)
         IN IF Len(with_coords) <= 1 THEN ps
            ELSE NearestNeighbour(<<with_coords[1]>>, Tail(with_coords))
                     \o without_coords

Spot(la) == [type |-> "attraction", duration_minutes |-> NoKey,
             opening_time |-> <<>>, closing_time |-> <<>>,
             lat |-> la, lng |-> 0]

\* a place with a latitude and no longitude
HalfLocated == [type |-> "cafe", duration_minutes |-> NoKey,
                opening_time |-> <<>>, closing_time |-> <<>>,
                lat |-> 100, lng |-> NoKey]

RouteKinds == {Spot(0), Spot(100), Spot(200), Spot(350), Hotel, HalfLocated}

InitRoute ==
    /\ places \in SeqsUpTo(RouteKinds, MaxRoutePlaces)
    /\ duration_days = 0
    /\ pace = "moderate"
    /\ start_time = <<9, 0>>
    /\ end_time = <<21, 0>>
    /\ pc = "order"
    /\ Idle

\* optimize_route_order(places)
OptimizeRoute ==
    /\ pc = "order"
    /\ route' = <<OptimizeRouteOrder(places)>>
    /\ pc' = "ordered"
    /\ UNCHANGED <<args, prepared_places, days, warnings, place_index, day_num,
                   day_activities, current_time, day_end, activities_today,
                   result, raised, run, first_run, skipped,
                   restaurants, validation, travel, svc>>

RouteSpec == InitRoute /\ [][OptimizeRoute]_vars

\* A single call, run to its end: the interpreter always executes the next
\* statement of a call in progress.
FairSpec == Init /\ [][Call]_vars /\ WF_vars(Call)

----------------------------------------------------------------------------
(* validate_schedule *)

\* add_meals_to_schedule marks the activities it creates with is_meal
IsMeal(a) == "is_meal" \in DOMAIN a

\* activity["place"]["name"]
ActivityName(a) == IF IsMeal(a) THEN a.place.name ELSE a.place

\* mutant: the start is compared with the previous start, not the previous end
RECURSIVE DayIssuesFromStart(_, _)
DayIssuesFromStart(day, n) ==
    IF n = 0 THEN <<>>
    ELSE LET acts == day.activities
             before == DayIssuesFromStart(day, n - 1)
         IN IF n > 1 /\ Strptime(acts[n].time) < Strptime(acts[n - 1].time)
            THEN Append(before, [type |-> "overlap",
                                 day |-> day.day_number,
                                 activity |-> ActivityName(acts[n])])
            ELSE before

\* lines 260-271: the issues of the first n activities of a day
RECURSIVE DayIssues(_, _)
DayIssues(day, n) ==
    IF n = 0 THEN <<>>
    ELSE LET acts == day.activities
             before == DayIssues(day, n - 1)
         IN IF n > 1 /\ Strptime(acts[n].time) < Strptime(acts[n - 1].end_time)
            THEN Append(before, [type |-> "overlap",
                                 day |-> day.day_number,
                                 activity |-> ActivityName(acts[n])])
            ELSE before

\* mutant: only the first Day is looked at
ScheduleIssuesFirstDay(schedule, n) ==
    IF n = 0 THEN <<>>
    ELSE DayIssues(schedule.days[1], Len(schedule.days[1].activities))

\* lines 258-271: the issues of the first n days
RECURSIVE ScheduleIssues(_, _)
ScheduleIssues(schedule, n) ==
    IF n = 0 THEN <<>>
    ELSE ScheduleIssues(schedule, n - 1)
         \o DayIssues(schedule.days[n], Len(schedule.days[n].activities))

\* validate_schedule
ValidateSchedule(schedule) ==
    LET issues == ScheduleIssues(schedule, Len(schedule.days))
    IN [valid |-> Len(issues) = 0, issues |-> issues]

----------------------------------------------------------------------------
(* add_meals_to_schedule *)

MaxMealPlaces == 4   \* longest list packed before meals are added

LunchTime == <<12, 30>>
DinnerTime == <<19, 30>>

\* a >= b on two "HH:MM" strings: the comparison is by characters, which for
\* two digits a field is the comparison of the hours, then of the minutes
StrGeq(a, b) == a[1] > b[1] \/ (a[1] = b[1] /\ a[2] >= b[2])

\* lines 303-310
LunchActivity(restaurant) ==
    [time |-> LunchTime,
     end_time |-> <<13, 30>>,
     duration_minutes |-> 60,
     travel_from_previous |-> 15,
     place |-> [name |-> restaurant.name, meal_type |-> "lunch"],
     is_meal |-> TRUE]

\* lines 318-325
DinnerActivity(restaurant) ==
    [time |-> DinnerTime,
     end_time |-> <<21, 0>>,
     duration_minutes |-> 90,
     travel_from_previous |-> 20,
     place |-> [name |-> restaurant.name, meal_type |-> "dinner"],
     is_meal |-> TRUE]

\* mutant: the flag lunch_inserted is not consulted
LunchDueEveryTime(inserted, activity) == StrGeq(activity.time, LunchTime)

\* line 299
LunchDue(inserted, activity) == ~inserted /\ StrGeq(activity.time, LunchTime)

\* mutant: dinner is triggered by the lunch threshold
DinnerDueFromLunchTime(inserted, activity) ==
    ~inserted /\ StrGeq(activity.time, LunchTime)

\* line 315
DinnerDue(inserted, activity) == ~inserted /\ StrGeq(activity.time, DinnerTime)

\* mutant: the activity is moved behind the meal when it is appended
KeptActivityShifted(activity) ==
    [activity EXCEPT !.time = Strftime(Strptime(activity.time) + 60),
                     !.end_time = Strftime(Strptime(activity.end_time) + 60)]

\* line 313: new_activities.append(activity)
KeptActivity(activity) == activity

\* lines 294-326: new_activities and the two flags after the first n
\* activities of a day (i = n - 1 in enumerate)
RECURSIVE MealsOfPrefix(_, _, _)
MealsOfPrefix(acts, rs, n) ==
    IF n = 0
    THEN [new |-> <<>>, lunch_inserted |-> FALSE, dinner_inserted |-> FALSE]
    ELSE LET before == MealsOfPrefix(acts, rs, n - 1)
             activity == acts[n]
             lunch == LunchDue(before.lunch_inserted, activity)
             dinner == DinnerDue(before.dinner_inserted, activity)
             with_lunch ==
                 IF lunch /\ rs # <<>>
                 THEN Append(before.new,
                             LunchActivity(rs[((n - 1) % Len(rs)) + 1]))
                 ELSE before.new
             with_activity == Append(with_lunch, KeptActivity(activity))
             with_dinner ==
                 IF dinner /\ rs # <<>>
                 THEN Append(with_activity,
                             DinnerActivity(rs[(n % Len(rs)) + 1]))
                 ELSE with_activity
         IN [new |-> with_dinner,
             lunch_inserted |-> before.lunch_inserted \/ lunch,
             dinner_inserted |-> before.dinner_inserted \/ dinner]

\* lines 290-330: every day dict gets its new activities list
AddMealsToSchedule(schedule, rs) ==
    [schedule EXCEPT !.days =
        [d \in 1..Len(schedule.days) |->
            [schedule.days[d] EXCEPT !.activities =
                MealsOfPrefix(schedule.days[d].activities, rs,
                              Len(schedule.days[d].activities)).new]]]

Bistro == [name |-> 101]
Diner == [name |-> 102]

RestaurantLists == {<<>>, <<Bistro>>, <<Bistro, Diner>>}

\* add_meals_to_schedule(schedule, restaurants) on the dict build_schedule
\* returned: the dict is changed in place and returned
AddMeals ==
    /\ pc = "done"
    /\ result # <<>>
    /\ \E rs \in RestaurantLists :
           /\ restaurants' = rs
           /\ result' = <<AddMealsToSchedule(result[1], rs)>>
    /\ pc' = "meals"
    /\ UNCHANGED <<args, prepared_places, days, warnings, place_index, day_num,
                   day_activities, current_time, day_end, activities_today,
                   raised, run, first_run, skipped, validation, route, travel,
                   svc>>

\* validate_schedule(schedule) on the schedule as build_schedule returned it
\* or as add_meals_to_schedule left it
Validate ==
    /\ pc \in {"done", "meals"}
    /\ result # <<>>
    /\ validation' = <<ValidateSchedule(result[1])>>
    /\ pc' = "validated"
    /\ UNCHANGED <<args, prepared_places, days, warnings, place_index, day_num,
                   day_activities, current_time, day_end, activities_today,
                   result, raised, run, first_run, skipped,
                   restaurants, route, travel, svc>>

\* a visit of 400 minutes
Cruise == [type |-> "beach", duration_minutes |-> 400,
           opening_time |-> <<>>, closing_time |-> <<>>,
           lat |-> NoKey, lng |-> NoKey]

MealKinds == {Hotel, Park, Museum, Cruise}

InitMeals ==
    /\ places \in SeqsUpTo(MealKinds, MaxMealPlaces)
    /\ duration_days \in 1..MaxDays
    /\ pace = "moderate"
    /\ start_time \in {<<9, 0>>, <<12, 0>>, <<19, 0>>}
    /\ end_time \in {<<23, 50>>, <<21, 60>>}
    /\ pc = "prepare"
    /\ Idle

\* the pipeline: build_schedule, then add_meals_to_schedule, then
\* validate_schedule
MealsNext ==
    \/ Call
    \/ AddMeals
    \/ Validate

MealsSpec == InitMeals /\ [][MealsNext]_vars

----------------------------------------------------------------------------
(* validate_schedule on schedules of any shape, in order or not *)

MaxValidActs == 3   \* most activities of the first Day

\* a visit from `from` to `to` o'clock
Visit(from, to) ==
    [time |-> <<from, 0>>, end_time |-> <<to, 0>>,
     duration_minutes |-> 60, travel_from_previous |-> 0, place |-> 1]

\* visits in and out of order, one of no length, one that ends before it
\* starts
Visits == {Visit(9, 10), Visit(10, 11), Visit(9, 11), Visit(11, 12),
           Visit(10, 10), Visit(11, 9)}

InitValidate ==
    /\ places = <<Park>>
    /\ duration_days = 2
    /\ pace = "moderate"
    /\ start_time = <<9, 0>>
    /\ end_time = <<21, 0>>
    /\ pc = "done"
    /\ \E first \in SeqsUpTo(Visits, MaxValidActs), second \in SeqsUpTo(Visits, 2) :
           result = <<[success |-> TRUE,
                       days |-> <<[day_number |-> 1, activities |-> first,
                                   total_activities |-> Len(first)],
                                  [day_number |-> 2, activities |-> second,
                                   total_activities |-> Len(second)]>>,
                       scheduled_count |-> Len(first) + Len(second),
                       total_places |-> Len(first) + Len(second),
                       warnings |-> <<>>]>>
    /\ prepared_places = <<>>
    /\ days = <<>>
    /\ warnings = <<>>
    /\ place_index = 0
    /\ day_num = 0
    /\ day_activities = <<>>
    /\ current_time = 0
    /\ day_end = 0
    /\ activities_today = 0
    /\ raised = ""
    /\ run = 1
    /\ first_run = NotStarted
    /\ skipped = {}
    /\ restaurants = <<>>
    /\ validation = <<>>
    /\ route = <<>>
    /\ travel = <<>>
    /\ redis_client = FALSE
    /\ NoRequestYet

ValidateSpec == InitValidate /\ [][Validate]_vars

----------------------------------------------------------------------------
(* The state service, the state tools and the session endpoints *)

MaxNotes == 1   \* most warnings, and most hotels, kept in one session

\* what build_schedule and the other scheduler functions leave alone here
sched == <<args, prepared_places, days, warnings, place_index, day_num,
           day_activities, current_time, day_end, activities_today, pc,
           result, raised, run, first_run, skipped,
           restaurants, validation, route, travel>>

\* get_state, lines 56-61: Redis holds data for the session
FromRedis(sid) == redis_client /\ redis_db.state[sid] # <<>>

\* RedisStateService.get_state: the decoded JSON from Redis, or the dict of
\* the fallback store (created empty when missing)
GetState(sid) ==
    IF FromRedis(sid) THEN redis_db.state[sid][1]
    ELSE IF fallback_store.state[sid] # <<>> THEN fallback_store.state[sid][1]
    ELSE EmptyState

\* RedisStateService.get_owner: with a Redis client the fallback store is not
\* read
GetOwner(sid) ==
    IF redis_client THEN redis_db.owner[sid] ELSE fallback_store.owner[sid]

\* _get_state, then the caller's writes to the dict it got (new), then
\* _save_state when save. The dict from the fallback store is the stored dict
\* itself, so writes to it are stored at once; the dict from Redis is a copy.
\* set_state with a Redis client writes to Redis only.
Touch(sid, new, save) ==
    /\ trip_states' = [trip_states EXCEPT ![sid] = <<new>>]
    /\ fallback_store' =
           IF FromRedis(sid) THEN fallback_store
           ELSE [fallback_store EXCEPT !.state[sid] = <<new>>]
    /\ redis_db' =
           IF save /\ redis_client
           THEN [redis_db EXCEPT !.state[sid] = <<new>>]
           ELSE redis_db

\* the tools run inside a chat request, with session_context set to its
\* session id
InChat(u, sid) == <<u, sid>> \in sessions

\* set_preferences(destination = ...): the destination carries the user's name
SetPreferences(u, sid) ==
    /\ pc = "serving"
    /\ InChat(u, sid)
    /\ Touch(sid, [GetState(sid) EXCEPT !.destination = u], TRUE)
    /\ ideal' = [ideal EXCEPT !.state[sid].destination = u]
    /\ response' = [kind |-> "saved", sid |-> sid]
    /\ UNCHANGED <<sched, redis_client, sessions>>

\* add_places([hotel], "hotel")
AddPlaces(u, sid) ==
    /\ pc = "serving"
    /\ InChat(u, sid)
    /\ Len(GetState(sid).hotels) < MaxNotes
    /\ Len(ideal.state[sid].hotels) < MaxNotes
    /\ Touch(sid, [GetState(sid) EXCEPT !.hotels = Append(@, u)], TRUE)
    /\ ideal' = [ideal EXCEPT !.state[sid].hotels = Append(@, u)]
    /\ response' = [kind |-> "saved", sid |-> sid]
    /\ UNCHANGED <<sched, redis_client, sessions>>

\* set_itinerary(days)
SetItinerary(u, sid) ==
    /\ pc = "serving"
    /\ InChat(u, sid)
    /\ Touch(sid, [GetState(sid) EXCEPT !.itinerary = <<u>>,
                                        !.phase = "complete"], TRUE)
    /\ ideal' = [ideal EXCEPT !.state[sid].itinerary = <<u>>,
                              !.state[sid].phase = "complete"]
    /\ response' = [kind |-> "saved", sid |-> sid]
    /\ UNCHANGED <<sched, redis_client, sessions>>

\* set_phase(phase): the dict is written, _save_state is not called
SetPhase(u, sid) ==
    /\ pc = "serving"
    /\ InChat(u, sid)
    /\ \E p \in {"researching", "building"} :
           /\ Touch(sid, [GetState(sid) EXCEPT !.phase = p], FALSE)
           /\ ideal' = [ideal EXCEPT !.state[sid].phase = p]
           /\ response' = [kind |-> "phase", sid |-> sid, phase |-> p]
    /\ UNCHANGED <<sched, redis_client, sessions>>

\* add_warning(message): the dict is written, _save_state is not called
AddWarning(u, sid) ==
    /\ pc = "serving"
    /\ InChat(u, sid)
    /\ Len(GetState(sid).warnings) < MaxNotes
    /\ Len(ideal.state[sid].warnings) < MaxNotes
    /\ Touch(sid, [GetState(sid) EXCEPT !.warnings = Append(@, u)], FALSE)
    /\ ideal' = [ideal EXCEPT !.state[sid].warnings = Append(@, u)]
    /\ response' = [kind |-> "warning_added", sid |-> sid]
    /\ UNCHANGED <<sched, redis_client, sessions>>

\* get_trip_state()
GetTripState(u, sid) ==
    /\ pc = "serving"
    /\ InChat(u, sid)
    /\ Touch(sid, GetState(sid), FALSE)
    /\ response' = [kind |-> "trip_state", sid |-> sid,
                    state |-> GetState(sid),
                    written |-> ideal.state[sid]]
    /\ UNCHANGED <<sched, redis_client, sessions, ideal>>

\* get_itinerary()
GetItinerary(u, sid) ==
    /\ pc = "serving"
    /\ InChat(u, sid)
    /\ Touch(sid, GetState(sid), FALSE)
    /\ response' = [kind |-> "itinerary", sid |-> sid,
                    itinerary |-> GetState(sid).itinerary,
                    phase |-> GetState(sid).phase,
                    written |-> ideal.state[sid]]
    /\ UNCHANGED <<sched, redis_client, sessions, ideal>>

\* RedisStateService.set_owner
SetOwner(sid, u) ==
    /\ redis_db' = IF redis_client
                   THEN [redis_db EXCEPT !.owner[sid] = <<u>>]
                   ELSE redis_db
    /\ fallback_store' = IF redis_client
                         THEN fallback_store
                         ELSE [fallback_store EXCEPT !.owner[sid] = <<u>>]

\* POST /chat/stream, api.py lines 452-491: the session is looked up under
\* (user, session id); when the user has none under that id it is created
\* and the user recorded as owner. A request without session_id brings a
\* fresh uuid, an id nobody has a session under.
ChatStream(u, sid) ==
    /\ pc = "serving"
    /\ IF <<u, sid>> \in sessions
       THEN UNCHANGED <<sessions, redis_db, fallback_store, ideal>>
       ELSE /\ sessions' = sessions \cup {<<u, sid>>}
            /\ SetOwner(sid, u)
            /\ ideal' = IF ideal.owner[sid] = <<>>
                        THEN [ideal EXCEPT !.owner[sid] = <<u>>]
                        ELSE ideal
    /\ response' = [kind |-> "done", sid |-> sid, user |-> u]
    /\ UNCHANGED <<sched, redis_client, trip_states>>

\* POST /chat, api.py lines 252-271: as above, no owner is recorded
Chat(u, sid) ==
    /\ pc = "serving"
    /\ sessions' = sessions \cup {<<u, sid>>}
    /\ response' = [kind |-> "chat", sid |-> sid, user |-> u]
    /\ UNCHANGED <<sched, redis_client, redis_db, fallback_store, trip_states,
                   ideal>>

\* POST /session, api.py lines 330-343: a session under a fresh uuid
CreateSession(u, sid) ==
    /\ pc = "serving"
    /\ \A v \in Users : <<v, sid>> \notin sessions
    /\ GetOwner(sid) = <<>>
    /\ sessions' = sessions \cup {<<u, sid>>}
    /\ response' = [kind |-> "created", sid |-> sid, user |-> u]
    /\ UNCHANGED <<sched, redis_client, redis_db, fallback_store, trip_states,
                   ideal>>

\* DELETE /session/{session_id}, api.py lines 350-356
DeleteSession(u, sid) ==
    /\ pc = "serving"
    /\ <<u, sid>> \in sessions
    /\ sessions' = sessions \ {<<u, sid>>}
    /\ response' = [kind |-> "deleted", sid |-> sid, user |-> u]
    /\ UNCHANGED <<sched, redis_client, redis_db, fallback_store, trip_states,
                   ideal>>

\* GET /session/{session_id}, api.py lines 371-376: the 403 is raised inside
\* the try and leaves as a 500
GetSessionDenied(u, sid) ==
    /\ pc = "serving"
    /\ GetOwner(sid) # <<>>
    /\ GetOwner(sid)[1] # u
    /\ response' = [kind |-> "session", sid |-> sid, user |-> u, status |-> 500]
    /\ UNCHANGED <<sched, redis_client, redis_db, fallback_store, trip_states,
                   sessions, ideal>>

\* GET /session/{session_id}, api.py lines 374-427: no owner is recorded or
\* the owner is the user; the trip state of the session id is returned
GetSessionHistory(u, sid) ==
    /\ pc = "serving"
    /\ ~(GetOwner(sid) # <<>> /\ GetOwner(sid)[1] # u)
    /\ Touch(sid, GetState(sid), FALSE)
    /\ response' = [kind |-> "session", sid |-> sid, user |-> u, status |-> 200,
                    trip_state |-> GetState(sid),
                    first_owner |-> ideal.owner[sid]]
    /\ UNCHANGED <<sched, redis_client, sessions, ideal>>

\* everything but the services, at rest
NoSchedule ==
    /\ places = <<>>
    /\ duration_days = 0
    /\ pace = "moderate"
    /\ start_time = <<9, 0>>
    /\ end_time = <<21, 0>>
    /\ pc = "serving"
    /\ NoCall

\* user A has opened a chat under every session id; Redis is connected or not
InitTools ==
    /\ NoSchedule
    /\ redis_client \in BOOLEAN
    /\ redis_db = EmptyStore
    /\ fallback_store = EmptyStore
    /\ trip_states = [sid \in Sids |-> <<>>]
    /\ sessions = {"A"} \X Sids
    /\ response = [kind |-> "chat", sid |-> "s1", user |-> "A"]
    /\ ideal = [state |-> [sid \in Sids |-> EmptyState],
                owner |-> [sid \in Sids |-> <<>>]]

\* the tool calls of the agents inside the chats
ToolsNext ==
    \E u \in Users, sid \in Sids :
        \/ SetPreferences(u, sid)
        \/ AddPlaces(u, sid)
        \/ SetItinerary(u, sid)
        \/ SetPhase(u, sid)
        \/ AddWarning(u, sid)
        \/ GetTripState(u, sid)
        \/ GetItinerary(u, sid)

ToolsSpec == InitTools /\ [][ToolsNext]_vars

InitApi ==
    /\ NoSchedule
    /\ redis_client \in BOOLEAN
    /\ redis_db = EmptyStore
    /\ fallback_store = EmptyStore
    /\ trip_states = [sid \in Sids |-> <<>>]
    /\ sessions = {}
    /\ response = [kind |-> "none"]
    /\ ideal = [state |-> [sid \in Sids |-> EmptyState],
                owner |-> [sid \in Sids |-> <<>>]]

\* the requests of the users, and the preferences the agent saves in a chat
ApiNext ==
    \E u \in Users, sid \in Sids :
        \/ ChatStream(u, sid)
        \/ Chat(u, sid)
        \/ CreateSession(u, sid)
        \/ DeleteSession(u, sid)
        \/ GetSessionDenied(u, sid)
        \/ GetSessionHistory(u, sid)
        \/ SetPreferences(u, sid)

ApiSpec == InitApi /\ [][ApiNext]_vars

----------------------------------------------------------------------------
(* Properties of build_schedule *)

Returned == pc = "done" /\ raised = "" /\ result # <<>>

Schedule == result[1]

\* the (day, position) pairs of the activities of the returned schedule
Slots == {<<d, i>> \in (1..Len(Schedule.days)) \X (1..Len(places)) :
              i <= Len(Schedule.days[d].activities)}

Act(slot) == Schedule.days[slot[1]].activities[slot[2]]

TimesWellFormed == WellFormed(start_time) /\ WellFormed(end_time)

\* C1: in every Day of a returned schedule each activity starts no earlier
\* than the activity before it ends, and validate_schedule finds it valid.
C1_ChronologicalNoOverlap ==
    Returned =>
        /\ \A s \in Slots :
               s[2] > 1 =>
                   Strptime(Act(s).time) >= Strptime(Act(<<s[1], s[2] - 1>>).end_time)
        /\ ValidateSchedule(Schedule).valid

\* C2: in every Day of a returned schedule the first activity does not start
\* before start_time and no activity ends after end_time.
C2_WithinDayWindow ==
    Returned =>
        \A s \in Slots :
            /\ s[2] = 1 => Strptime(Act(s).time) >= Strptime(start_time)
            /\ Strptime(Act(s).end_time) <= Strptime(end_time)

\* the pace table as the claim C3 states it
ClaimedCap(p) == IF p = "relaxed" THEN 4 ELSE IF p = "moderate" THEN 5 ELSE 6

\* C3: every Day of a returned schedule holds at most 4 (relaxed), 5
\* (moderate) or 6 (packed) activities.
C3_AtMostMaxActivities ==
    (Returned /\ pace \in Paces) =>
        \A d \in 1..Len(Schedule.days) :
            Len(Schedule.days[d].activities) <= ClaimedCap(pace)

\* C3 witness: the packed cap of 6 ended a Day while places were left.
C3_Witness ==
    /\ Returned
    /\ pace = "packed"
    /\ Schedule.scheduled_count < Schedule.total_places
    /\ \E d \in 1..Len(Schedule.days) : Len(Schedule.days[d].activities) = 6

\* C4: no index of the place list is the place of two activities of the
\* returned schedule, on one day or on two.
C4_PlaceScheduledAtMostOnce ==
    Returned =>
        \A s, t \in Slots : Act(s).place = Act(t).place => s = t

\* C4 witness: a schedule with activities on two days and a skipped place.
C4_Witness ==
    /\ Returned
    /\ skipped # {}
    /\ Len(Schedule.days) = 2
    /\ Schedule.days[1].activities # <<>>
    /\ Schedule.days[2].activities # <<>>

\* the warnings of the returned schedule that name place i
WarningsNaming(i) ==
    {k \in 1..Len(Schedule.warnings) :
         \E j \in 1..Len(Schedule.warnings[k].names) :
             Schedule.warnings[k].names[j] = i}

C6_WithinOpeningHours ==
    Returned =>
        \A s \in Slots :
            LET p == prepared_places[Act(s).place]
            IN /\ p.opening_time # <<>> =>
                      Strptime(Act(s).time) >= Strptime(p.opening_time)
               /\ p.closing_time # <<>> =>
                      Strptime(Act(s).end_time) <= Strptime(p.closing_time)

\* C7 as stated: with duration_days < 1 or a pace that is none of relaxed,
\* moderate, packed, the call ends with an error and returns no schedule.
C7_BadArgumentsRaise ==
    (pc = "done" /\ (duration_days < 1 \/ pace \notin Paces)) =>
        (raised # "" /\ result = <<>>)

\* C7 amended: with duration_days < 1 the call raises nothing and returns a
\* schedule without Days that consumed no place; with an unknown pace and
\* well-formed times it raises nothing and returns a schedule whose Days
\* hold at most 5 activities.
C7_BadArgumentsDefaulted ==
    /\ (pc = "done" /\ duration_days < 1) =>
           /\ Returned
           /\ Schedule.days = <<>>
           /\ Schedule.scheduled_count = 0
    /\ (pc = "done" /\ pace \notin Paces /\ TimesWellFormed) =>
           /\ Returned
           /\ \A d \in 1..Len(Schedule.days) :
                  Len(Schedule.days[d].activities) <= 5

\* C7 witness: an unknown pace, and the cap of 5 ended a Day.
C7_Witness ==
    /\ Returned
    /\ pace \notin Paces
    /\ Schedule.scheduled_count < Schedule.total_places
    /\ \E d \in 1..Len(Schedule.days) : Len(Schedule.days[d].activities) = 5

\* C8: with parseable day bounds and duration_days >= 1 every call ends, and
\* it ends by returning a schedule, not by raising.
C8_TerminatesWithSchedule ==
    (pc = "prepare" /\ TimesWellFormed /\ duration_days >= 1) ~> Returned

\* C8 witness: a returned schedule after a closing-time skip and a Day cut
\* short by end_time, with places lacking coordinates.
C8_Witness ==
    /\ Returned
    /\ duration_days >= 1
    /\ skipped # {}
    /\ Schedule.scheduled_count < Schedule.total_places
    /\ \E i \in 1..Len(places) : ~HasCoords(places[i])

C10_EmptyPlaceList ==
    (pc = "done" /\ places = <<>> /\ duration_days >= 1 /\ TimesWellFormed) =>
        /\ Returned
        /\ Len(Schedule.days) = duration_days
        /\ \A d \in 1..Len(Schedule.days) :
               /\ Schedule.days[d].day_number = d
               /\ Schedule.days[d].activities = <<>>
               /\ Schedule.days[d].total_activities = 0
        /\ Schedule.scheduled_count = 0
        /\ Schedule.total_places = 0
        /\ Schedule.warnings = <<>>

\* C10 witness: the call on an empty list with two days returned.
C10_Witness ==
    /\ Returned
    /\ places = <<>>
    /\ duration_days = 2

\* the start the claim C11 gives an activity that follows prev
ClaimedStart(prev, p) ==
    Strftime(Strptime(prev.end_time) + 15
             + EstimateTravelTime(prepared_places[prev.place], p))

\* C11: the first activity of a Day, when its place has no opening_time,
\* starts at start_time with travel 0; a later activity whose place has no
\* opening_time after the previous end + 15 starts at the previous end_time +
\* 15 + the travel estimate; every activity ends at its start + duration; and
\* the scenario 120, 90, 60 gives 09:00-11:00, 11:40-13:10, 13:50-14:50.
C11_StartTimes ==
    Returned =>
        /\ \A s \in Slots :
               LET a == Act(s)
                   p == prepared_places[a.place]
               IN /\ (s[2] = 1 /\ p.opening_time = <<>>) =>
                         (a.time = start_time /\ a.travel_from_previous = 0)
                  /\ s[2] > 1 =>
                         LET prev == Act(<<s[1], s[2] - 1>>)
                         IN (\/ p.opening_time = <<>>
                             \/ Strptime(p.opening_time)
                                    <= Strptime(prev.end_time) + 15) =>
                                a.time = ClaimedStart(prev, p)
                  /\ a.end_time = Strftime(Strptime(a.time) + a.duration_minutes)
        /\ (places = ScenarioPlaces /\ duration_days = 1 /\ end_time = <<21, 0>>) =>
               /\ Len(Schedule.days[1].activities) = 3
               /\ Act(<<1, 1>>).time = <<9, 0>> /\ Act(<<1, 1>>).end_time = <<11, 0>>
               /\ Act(<<1, 2>>).time = <<11, 40>> /\ Act(<<1, 2>>).end_time = <<13, 10>>
               /\ Act(<<1, 3>>).time = <<13, 50>> /\ Act(<<1, 3>>).end_time = <<14, 50>>

\* both places carry the keys lat and lng
BothLocated(f, t) ==
    f.lat # NoKey /\ f.lng # NoKey /\ t.lat # NoKey /\ t.lng # NoKey

\* C12: with coordinates on both places the estimate is the distance in half
\* kilometres, truncated, then clamped to 10..60; otherwise it is 15 for two
\* places of one type and 25 for two types; so it is 15, 25 or in 10..60.
C12_TravelEstimate ==
    pc = "estimated" =>
        LET f == places[1]
            t == places[2]
            m == travel[1]
            d == HaversineMetres(f.lat, f.lng, t.lat, t.lng)
        IN /\ BothLocated(f, t) =>
                  \E u \in 0..100 :
                      /\ 500 * u <= d /\ d < 500 * (u + 1)
                      /\ m = (IF u < 10 THEN 10 ELSE IF u > 60 THEN 60 ELSE u)
           /\ ~BothLocated(f, t) =>
                  m = (IF f.type = t.type THEN 15 ELSE 25)
           /\ (m = 15 \/ m = 25 \/ m \in 10..60)

\* C12 witness: two located places whose distance is cut down, not rounded,
\* to a number of minutes strictly inside the range.
C12_Witness ==
    /\ pc = "estimated"
    /\ BothLocated(places[1], places[2])
    /\ travel[1] \in 11..59
    /\ HaversineMetres(places[1].lat, places[1].lng,
                       places[2].lat, places[2].lng) % 500 >= 250

\* the positions of the input places that carry both coordinates
Located == {i \in 1..Len(places) : places[i].lat # NoKey /\ places[i].lng # NoKey}

Metres(i, j) == HaversineMetres(places[i].lat, places[i].lng,
                                places[j].lat, places[j].lng)

\* the order the claim C13 describes, as positions of the input list
RECURSIVE ClaimedOrder(_, _)
ClaimedOrder(chosen, unvisited) ==
    IF unvisited = {} THEN chosen
    ELSE LET last == chosen[Len(chosen)]
             closest == {i \in unvisited :
                            \A j \in unvisited : Metres(last, i) <= Metres(last, j)}
             next == CHOOSE i \in closest : \A j \in closest : i <= j
         IN ClaimedOrder(Append(chosen, next), unvisited \ {next})

FirstLocated == CHOOSE i \in Located : \A j \in Located : i <= j

\* C13: for more than 2 places, at least 2 of them located, the result begins
\* with the located places in nearest-neighbour order: first the first located
\* place of the input, then always the unvisited place nearest to the last
\* one chosen, the earliest of the input in a tie.
C13_NearestNeighbourOrder ==
    (pc = "ordered" /\ Len(places) > 2 /\ Cardinality(Located) >= 2) =>
        LET order == ClaimedOrder(<<FirstLocated>>, Located \ {FirstLocated})
        IN /\ Len(route[1]) >= Len(order)
           /\ \A k \in 1..Len(order) : route[1][k] = places[order[k]]

\* C13 witness: three located places are reordered, and at one step two
\* different unvisited places were equally near.
C13_Witness ==
    /\ pc = "ordered"
    /\ Cardinality(Located) >= 3
    /\ route[1] # places
    /\ \E k \in 1..(Len(route[1]) - 2) :
           /\ route[1][k + 1] # route[1][k + 2]
           /\ HasCoords(route[1][k + 2])
           /\ Dist(route[1][k], route[1][k + 1]) = Dist(route[1][k], route[1][k + 2])

\* the result is the located places followed by the others in input order
Partitioned ==
    LET r == route[1]
        others == SelectSeq(places, NoCoords)
        k == Len(r) - Len(others)
    IN /\ k >= 0
       /\ \A i \in 1..k : r[i].lat # NoKey /\ r[i].lng # NoKey
       /\ SubSeq(r, k + 1, Len(r)) = others

\* C14 as stated: for every list of more than 2 places the result holds the
\* located places first and then the places without coordinates in their
\* input order.
C14_LocatedFirst ==
    (pc = "ordered" /\ Len(places) > 2) => Partitioned

\* C14 amended: that holds when at least 2 places are located; with one
\* located place or none the result is the input list, unchanged.
C14_LocatedFirstOrUnchanged ==
    (pc = "ordered" /\ Len(places) > 2) =>
        /\ Cardinality(Located) >= 2 => Partitioned
        /\ Cardinality(Located) <= 1 => route[1] = places

\* C14 witness: two located places after a place without coordinates, and
\* two places without coordinates that keep their order.
C14_Witness ==
    /\ pc = "ordered"
    /\ Len(places) = 4
    /\ Cardinality(Located) = 2
    /\ NoCoords(places[1])
    /\ NoCoords(places[4])
    /\ places[1] # places[4]
    /\ Partitioned

----------------------------------------------------------------------------
(* Properties of add_meals_to_schedule and validate_schedule *)

\* add_meals_to_schedule has returned
MealsAdded == pc = "meals"

\* The activities of Day d as build_schedule packed them, and as
\* add_meals_to_schedule left them
Before(d) == days[d].activities
After(d) == Schedule.days[d].activities

IsLunch(a) == IsMeal(a) /\ a.place.meal_type = "lunch"
IsDinner(a) == IsMeal(a) /\ a.place.meal_type = "dinner"

Lunches(d) == {i \in 1..Len(After(d)) : IsLunch(After(d)[i])}
Dinners(d) == {i \in 1..Len(After(d)) : IsDinner(After(d)[i])}

\* The packed activities of Day d that start at or after the time t
FromTime(d, t) ==
    {n \in 1..Len(Before(d)) : Strptime(Before(d)[n].time) >= Strptime(t)}

First(S) == CHOOSE n \in S : \A m \in S : n <= m

\* position i of Day d holds a meal, and the activity right after it is the
\* packed activity n
MealRightBefore(d, i, n) ==
    /\ i < Len(After(d))
    /\ ~IsMeal(After(d)[i + 1])
    /\ After(d)[i + 1] = Before(d)[n]
    /\ Len(SelectSeq(SubSeq(After(d), 1, i), LAMBDA a : ~IsMeal(a))) = n - 1

\* C15: with restaurants given, a Day that has an activity starting at or
\* after 12:30 gets exactly one lunch, 12:30 to 13:30, 60 minutes, travel 15,
\* placed immediately before the first such activity.
C15_LunchBeforeFirstAfternoonActivity ==
    (MealsAdded /\ restaurants # <<>>) =>
        \A d \in 1..Len(days) :
            FromTime(d, LunchTime) # {} =>
                /\ Cardinality(Lunches(d)) = 1
                /\ \A i \in Lunches(d) :
                       /\ After(d)[i].time = <<12, 30>>
                       /\ After(d)[i].end_time = <<13, 30>>
                       /\ After(d)[i].duration_minutes = 60
                       /\ After(d)[i].travel_from_previous = 15
                       /\ MealRightBefore(d, i, First(FromTime(d, LunchTime)))

\* a Day whose first activity from 12:30 on is not its first activity has its
\* lunch in the middle of the day
C15_Witness ==
    /\ MealsAdded
    /\ restaurants # <<>>
    /\ \E d \in 1..Len(days) :
           /\ FromTime(d, LunchTime) # {}
           /\ First(FromTime(d, LunchTime)) > 1
           /\ First(FromTime(d, LunchTime)) < Len(Before(d))
           /\ Lunches(d) # {}

\* C16: with restaurants given, a Day that has an activity starting at or
\* after 19:30 gets exactly one dinner, at 19:30, 90 minutes, travel 20,
\* placed immediately before the first such activity.
C16_DinnerBeforeFirstEveningActivity ==
    (MealsAdded /\ restaurants # <<>>) =>
        \A d \in 1..Len(days) :
            FromTime(d, DinnerTime) # {} =>
                /\ Cardinality(Dinners(d)) = 1
                /\ \A i \in Dinners(d) :
                       /\ After(d)[i].time = <<19, 30>>
                       /\ After(d)[i].duration_minutes = 90
                       /\ After(d)[i].travel_from_previous = 20
                       /\ MealRightBefore(d, i, First(FromTime(d, DinnerTime)))

\* The schedule as build_schedule returned it
Packed == [Schedule EXCEPT !.days = days]

\* C17: after meals are added, with restaurants given, to a schedule that
\* was in order, every Day is still in chronological order without overlap
\* and validate_schedule finds the schedule valid.
C17_MealsKeepChronologicalOrder ==
    (MealsAdded /\ restaurants # <<>> /\ ValidateSchedule(Packed).valid) =>
        /\ \A d \in 1..Len(days) :
               \A i \in 2..Len(After(d)) :
                   Strptime(After(d)[i].time) >= Strptime(After(d)[i - 1].end_time)
        /\ ValidateSchedule(Schedule).valid

\* C18: the activities of a Day that are not meals are, after the call, the
\* activities the Day had before it, unchanged and in the same order; the
\* Days themselves and their numbers are the same.
C18_PackedActivitiesKept ==
    MealsAdded =>
        /\ Len(Schedule.days) = Len(days)
        /\ \A d \in 1..Len(days) :
               /\ Schedule.days[d].day_number = days[d].day_number
               /\ SelectSeq(After(d), LAMBDA a : ~IsMeal(a)) = Before(d)
               /\ \A i \in 1..Len(After(d)) :
                      IsMeal(After(d)[i]) => (IsLunch(After(d)[i]) \/ IsDinner(After(d)[i]))

\* a Day that got both meals around its packed activities
C18_Witness ==
    /\ MealsAdded
    /\ \E d \in 1..Len(days) :
           /\ Lunches(d) # {}
           /\ Dinners(d) # {}
           /\ Len(Before(d)) >= 2

\* C19: a Day without an activity starting at or after 12:30 gets no lunch, a
\* Day without an activity starting at or after 19:30 gets no dinner, and a
\* Day without activities stays without activities.
C19_NoMealWithoutLaterActivity ==
    MealsAdded =>
        \A d \in 1..Len(days) :
            /\ FromTime(d, LunchTime) = {} => Lunches(d) = {}
            /\ FromTime(d, DinnerTime) = {} => Dinners(d) = {}
            /\ Before(d) = <<>> => After(d) = <<>>

\* restaurants are given, one Day has activities in the morning only and got
\* no meal, and another Day is empty
C19_Witness ==
    /\ MealsAdded
    /\ restaurants # <<>>
    /\ \E d \in 1..Len(days) :
           /\ Before(d) # <<>>
           /\ FromTime(d, LunchTime) = {}
           /\ After(d) = Before(d)
    /\ \E d \in 1..Len(days) : Before(d) = <<>> /\ After(d) = <<>>

\* validate_schedule has returned
Validated == pc = "validated" /\ validation # <<>>

\* The activities that start before the activity right before them in the
\* same Day has ended
Overlaps ==
    {s \in UNION {{<<d, i>> : i \in 2..Len(Schedule.days[d].activities)} :
                  d \in 1..Len(Schedule.days)} :
        Strptime(Schedule.days[s[1]].activities[s[2]].time)
            < Strptime(Schedule.days[s[1]].activities[s[2] - 1].end_time)}

Earlier(s, t) == s[1] < t[1] \/ (s[1] = t[1] /\ s[2] < t[2])

\* C20: validate_schedule reports exactly one overlap issue, with the Day's
\* number and the activity's name, for each activity that starts before the
\* end of the activity right before it in the same Day, none for the first
\* activity of a Day, and valid is true exactly when there is no issue.
C20_OverlapIssues ==
    Validated =>
        LET report == validation[1]
        IN /\ Len(report.issues) = Cardinality(Overlaps)
           /\ \A s \in Overlaps :
                  report.issues[1 + Cardinality({t \in Overlaps : Earlier(t, s)})]
                      = [type |-> "overlap",
                         day |-> Schedule.days[s[1]].day_number,
                         activity |->
                             ActivityName(Schedule.days[s[1]].activities[s[2]])]
           /\ report.valid <=> (Overlaps = {})

\* a schedule of two Days with an issue, whose second Day begins before the
\* first Day's last activity ended and is not reported for it
C20_Witness ==
    /\ Validated
    /\ Len(Schedule.days) = 2
    /\ Overlaps # {}
    /\ ~validation[1].valid
    /\ Schedule.days[1].activities # <<>>
    /\ Schedule.days[2].activities # <<>>
    /\ Strptime(Schedule.days[2].activities[1].time)
           < Strptime(Schedule.days[1].activities[
                 Len(Schedule.days[1].activities)].end_time)
    /\ \E i \in 1..Len(validation[1].issues) : validation[1].issues[i].day = 2

----------------------------------------------------------------------------
(* Frame, cursor and warning properties *)

\* C21: the Schedule handed to add_meals_to_schedule or validate_schedule is,
\* after the call, the Schedule build_schedule had returned: the Days the
\* caller holds are the Days as they were packed.
C21_ArgumentsUnchanged ==
    (pc \in {"meals", "validated"} /\ result # <<>>) => Schedule.days = days

\* the place under the cursor is about to be skipped for its closing_time
SkipsPlace == pc = "while" /\ WhileCond /\ ClosesTooEarly

\* C22: a skip for closing_time leaves current_time as it was before the
\* skipped place was taken from the list.
C22_SkipKeepsCurrentTime ==
    [][SkipsPlace => current_time' = current_time]_vars

\* the place under the cursor would end after day_end
DoesNotFit ==
    pc = "while" /\ WhileCond /\ ~ClosesTooEarly /\ ActivityEnd > day_end

Scheduled == {Act(s).place : s \in Slots}

\* the places the cursor never passed
Unconsumed == (1..Len(places)) \ (Scheduled \cup skipped)

\* the aggregate warnings of the returned schedule
Aggregates ==
    {k \in 1..Len(Schedule.warnings) : Schedule.warnings[k].kind = "Could not fit"}

\* C24: the returned schedule carries one aggregate warning when places
\* were never consumed and none otherwise; the warning is the last one and
\* names the first min(3, k) of the k unconsumed places in input order.
C24_AggregateWarning ==
    Returned =>
        LET k == Cardinality(Unconsumed)
        IN /\ Cardinality(Aggregates) = IF k > 0 THEN 1 ELSE 0
           /\ \A a \in Aggregates :
                  /\ a = Len(Schedule.warnings)
                  /\ Len(Schedule.warnings[a].names) = Min(3, k)
                  /\ \A j \in 1..Len(Schedule.warnings[a].names) :
                         LET n == Schedule.warnings[a].names[j]
                         IN /\ n \in Unconsumed
                            /\ Cardinality({m \in Unconsumed : m < n}) = j - 1

\* more than three places were left over behind a scheduled one
C24_Witness ==
    /\ Returned
    /\ Cardinality(Unconsumed) > 3
    /\ Scheduled # {}
    /\ Aggregates # {}

\* C25: scheduled_count is the number of activities of the returned schedule.
C25_ScheduledCountIsActivities ==
    Returned => Schedule.scheduled_count = Cardinality(Slots)

\* place j alone would fit into a Day that has no activity yet
FitsEmptyDay(j) ==
    LET p == prepared_places[j]
        begin == IF p.opening_time # <<>>
                 THEN Max(Strptime(start_time), Strptime(p.opening_time))
                 ELSE Strptime(start_time)
    IN /\ Strptime(start_time) < Strptime(end_time)
       /\ begin + p.duration_minutes <= Strptime(end_time)
       /\ p.closing_time # <<>> =>
              begin + p.duration_minutes <= Strptime(p.closing_time)

\* C26: no Day after the first of the returned schedule is left without
\* activities while a place that would fit into an empty Day was never
\* consumed.
C26_UnfitPlaceDoesNotBlock ==
    (Returned /\ TimesWellFormed) =>
        \A j \in Unconsumed :
            FitsEmptyDay(j) =>
                \A d \in 2..Len(Schedule.days) : Schedule.days[d].activities # <<>>

----------------------------------------------------------------------------
(* Permutation and pairwise properties *)

Count(seq, x) == Cardinality({i \in 1..Len(seq) : seq[i] = x})

\* C27: the list optimize_route_order returns has the length of its input
\* and holds every place as many times as the input does.
C27_RouteIsPermutation ==
    (pc = "ordered" /\ route # <<>>) =>
        /\ Len(route[1]) = Len(places)
        /\ \A i \in 1..Len(places) :
               Count(route[1], places[i]) = Count(places, places[i])
        /\ \A i \in 1..Len(route[1]) :
               Count(places, route[1][i]) = Count(route[1], route[1][i])

\* a list that is reordered, with a located place in it twice and a place
\* without coordinates
C27_Witness ==
    /\ pc = "ordered"
    /\ route # <<>>
    /\ route[1] # places
    /\ \E i \in 1..Len(places) :
           HasCoords(places[i]) /\ Count(places, places[i]) = 2
    /\ \E i \in 1..Len(places) : ~HasCoords(places[i])

\* C28: when validate_schedule finds a schedule valid in which no activity
\* ends before it starts, any two activities of one Day do not overlap: the
\* later one starts no earlier than the earlier one ends.
C28_ValidMeansPairwiseDisjoint ==
    (Validated
     /\ validation[1].valid
     /\ \A d \in 1..Len(Schedule.days) :
            \A i \in 1..Len(Schedule.days[d].activities) :
                Strptime(Schedule.days[d].activities[i].end_time)
                    >= Strptime(Schedule.days[d].activities[i].time)) =>
        \A d \in 1..Len(Schedule.days) :
            \A i, j \in 1..Len(Schedule.days[d].activities) :
                i < j =>
                    Strptime(Schedule.days[d].activities[j].time)
                        >= Strptime(Schedule.days[d].activities[i].end_time)

\* a valid schedule with three activities in one Day and two in the other
C28_Witness ==
    /\ Validated
    /\ validation[1].valid
    /\ Len(Schedule.days) = 2
    /\ Len(Schedule.days[1].activities) = 3
    /\ Len(Schedule.days[2].activities) = 2
    /\ \A d \in 1..2 :
           \A i \in 1..Len(Schedule.days[d].activities) :
               Strptime(Schedule.days[d].activities[i].end_time)
                   >= Strptime(Schedule.days[d].activities[i].time)

----------------------------------------------------------------------------
(* Properties of the sessions and their trip state *)

\* C29: the owner recorded for a session is the first user recorded for it,
\* and a GET /session/{session_id} that returns the trip state of a session
\* with a recorded owner answers that owner.
C29_SessionOwnerIsolation ==
    /\ \A sid \in Sids :
           ideal.owner[sid] # <<>> => GetOwner(sid) = ideal.owner[sid]
    /\ (response.kind = "session"
        /\ response.status = 200
        /\ response.first_owner # <<>>) =>
           response.user = response.first_owner[1]

\* C30: what get_trip_state and get_itinerary return is the state that the
\* tool calls of the session so far add up to.
C30_ReadYourWrites ==
    /\ response.kind = "trip_state" => response.state = response.written
    /\ response.kind = "itinerary" =>
           /\ response.itinerary = response.written.itinerary
           /\ response.phase = response.written.phase

============================================================================
